---- MODULE Spec2Model ----
(***************************************************************************)
(* Model of the QuickBooksOAuth class of quickbooks_oauth_final.py: the    *)
(* token lifecycle state of one instance, its five operations, a clock     *)
(* and the provider's answers.                                             *)
(*                                                                         *)
(* Python values are tagged records (None, str, int, bool); a str is a    *)
(* sequence of symbols, where the symbols "code=", "realmId=", "state="    *)
(* and "&" stand for those substrings of a URL and every other symbol for  *)
(* text that contains none of them.  Under Spec each operation is one      *)
(* step: the class is used from one thread and every method returns        *)
(* before the next is called; the variable last records what the step      *)
(* did.  Under SpecConcurrent two threads run make_api_call on the one     *)
(* instance, one statement at a time; threads holds their positions and    *)
(* locals, wire the requests they sent.                                    *)
(***************************************************************************)
EXTENDS Integers, Sequences, FiniteSets, TLC

VARIABLES client_id, client_secret, redirect_uri,
          auth_code, access_token, refresh_token, token_expiry, realm_id,
          now, last, threads, wire

fields == <<client_id, client_secret, redirect_uri,
            auth_code, access_token, refresh_token, token_expiry, realm_id>>
tokens == <<access_token, refresh_token, token_expiry>>
vars == <<client_id, client_secret, redirect_uri,
          auth_code, access_token, refresh_token, token_expiry, realm_id,
          now, last, threads, wire>>

-----------------------------------------------------------------------------
(* Bounds *)

\* the clock is read within MaxClock seconds of construction, or that long
\* after the default lifetime of a token has passed
MaxClock == 2
\* largest expires_in the provider answers with
MaxExpiresIn == 1

\* int(time.time()) at construction: Unix seconds, far from 0
Epoch == 10

Instants == {Epoch + k : k \in 0..MaxClock} \cup {Epoch + 3600 + k : k \in 0..MaxClock}

-----------------------------------------------------------------------------
(* Python values *)

None == [t |-> "None"]
Str(s) == [t |-> "str", s |-> s]
Num(n) == [t |-> "int", n |-> n]
Bool(b) == [t |-> "bool", b |-> b]
\* a parsed JSON object, as response.json() returns it to the caller
Json == [t |-> "dict"]
\* a key a JSON object does not have
Absent == [t |-> "absent"]

\* truth value of a Python object, as `if x` / `not x` take it
Truthy(v) ==
    CASE v.t = "None" -> FALSE
      [] v.t = "str" -> v.s # <<>>
      [] v.t = "int" -> v.n # 0
      [] v.t = "bool" -> v.b
      [] OTHER -> TRUE

\* dict.get(key, default) on a parsed JSON object
DictGet(body, key, default) ==
    IF body[key] = Absent THEN default ELSE body[key]

-----------------------------------------------------------------------------
(* str.split and the `in` operator on strings *)

Contains(s, sep) == \E i \in 1..Len(s) : s[i] = sep

FirstIndex(s, sep) == CHOOSE i \in 1..Len(s) : s[i] = sep /\ \A j \in 1..(i-1) : s[j] # sep

RECURSIVE Split(_, _)
Split(s, sep) ==
    IF ~Contains(s, sep) THEN <<s>>
    ELSE LET i == FirstIndex(s, sep)
         IN <<SubSeq(s, 1, i-1)>> \o Split(SubSeq(s, i+1, Len(s)), sep)

-----------------------------------------------------------------------------
(* The instance as a record, for the operators that model the methods *)

Self == [client_id |-> client_id, client_secret |-> client_secret,
         redirect_uri |-> redirect_uri, auth_code |-> auth_code,
         access_token |-> access_token, refresh_token |-> refresh_token,
         token_expiry |-> token_expiry, realm_id |-> realm_id]

Store(self) ==
    /\ client_id' = self.client_id
    /\ client_secret' = self.client_secret
    /\ redirect_uri' = self.redirect_uri
    /\ auth_code' = self.auth_code
    /\ access_token' = self.access_token
    /\ refresh_token' = self.refresh_token
    /\ token_expiry' = self.token_expiry
    /\ realm_id' = self.realm_id

-----------------------------------------------------------------------------
(* The provider's answers *)

\* no answer: the request was not sent
NoResp == [kind |-> "none", status |-> 0, body |-> [t |-> "none"]]
\* requests.post / requests.get raised: connection failure, timeout
TransportError == [kind |-> "error", status |-> 0, body |-> [t |-> "none"]]
Http(status, body) == [kind |-> "http", status |-> status, body |-> body]

\* a body that is not JSON
NotJson == [t |-> "text"]
TokenBody(a, r, e) == [t |-> "dict", access_token |-> a, refresh_token |-> r, expires_in |-> e]

AccessTokens == {Str(<<"a1">>), Str(<<"a2">>)}
RefreshTokens == {Str(<<"r1">>), Str(<<"r2">>)}
\* expires_in: a number, missing, or null (which stands for every value that
\* is not a number)
ExpiresIns == {Num(n) : n \in 0..MaxExpiresIn} \cup {Absent, None}

TokenBodies ==
    {TokenBody(a, r, e) : a \in AccessTokens \cup {Absent}, r \in RefreshTokens \cup {Absent},
                          e \in ExpiresIns}

\* a JSON object with none of the three keys, such as {"error": "invalid_grant"}
ErrorJson == TokenBody(Absent, Absent, Absent)

TokenResponses ==
    {TransportError, Http(401, ErrorJson), Http(200, NotJson)} \cup {Http(200, b) : b \in TokenBodies}

ApiResponses == {TransportError, Http(401, NotJson), Http(200, Json)}

\* a call one method makes to another, and what it returned
Call(fn, ret) == [fn |-> fn, ret |-> ret]

\* no form was posted
NoPayload == [grant_type |-> "none"]

\* what an operation leaves behind for the properties: its name, its return
\* value, the requests it sent in order, the methods it called in order, the
\* redirect it was given, the token endpoint's answer and the form it posted
\* the threads that call make_api_call at the same time
Callers == {"A", "B"}

\* a thread outside make_api_call: no token_data, no headers, no expiry read
Idle == [pc |-> "idle", token_data |-> None, bearer |-> None, partial |-> FALSE, seen |-> None]

Done(op, ret, net, calls) ==
    [op |-> op, ret |-> ret, net |-> net, calls |-> calls, url |-> <<>>, resp |-> NoResp,
     payload |-> NoPayload]

-----------------------------------------------------------------------------
(* __init__ *)

Init ==
    /\ client_id = Str(<<"CID">>)
    /\ client_secret = Str(<<"SECRET">>)
    /\ redirect_uri = Str(<<"https://app/cb">>)
    /\ auth_code = None
    /\ access_token = None
    /\ refresh_token = None
    /\ token_expiry = None
    /\ realm_id = None
    /\ now = Epoch
    /\ last = Done("__init__", None, <<>>, <<>>)
    /\ threads = [c \in Callers |-> Idle]
    /\ wire = {}

-----------------------------------------------------------------------------
(* get_authorization_url *)

get_authorization_url(self) ==
    Str(<<"https://appcenter.intuit.com/connect/oauth2", "?client_id=">>
        \o self.client_id.s \o <<"&", "redirect_uri=">> \o self.redirect_uri.s
        \o <<"&", "response_type=code", "&", "scope=com.intuit.quickbooks.accounting",
             "&", "state=", "randomstate">>)

GetAuthorizationUrl ==
    /\ last' = Done("get_authorization_url", get_authorization_url(Self), <<>>, <<>>)
    /\ UNCHANGED <<fields, now, threads, wire>>

-----------------------------------------------------------------------------
(* Redirect URLs: a base, then "?" and name=value parameters joined by "&" *)

\* parameter names a redirect may carry; "xcode" is a name that ends in "code"
ParamNames == {"code", "realmId", "state", "xcode"}

ParamValues(name) ==
    CASE name = "code" -> {<<"AB123">>, <<"CD456">>}
      [] name = "realmId" -> {<<"999">>, <<"888">>}
      [] name = "state" -> {<<"s">>}
      [] name = "xcode" -> {<<"ZZ">>}

\* the text `name=` as symbols
NameText(name) ==
    CASE name = "code" -> <<"code=">>
      [] name = "realmId" -> <<"realmId=">>
      [] name = "state" -> <<"state=">>
      [] name = "xcode" -> <<"x", "code=">>

Param(name, value) == [name |-> name, value |-> value]

RECURSIVE JoinParams(_)
JoinParams(ps) ==
    IF ps = <<>> THEN <<>>
    ELSE NameText(ps[1].name) \o ps[1].value
         \o (IF Len(ps) > 1 THEN <<"&">> \o JoinParams(Tail(ps)) ELSE <<>>)

UrlOf(ps) ==
    IF ps = <<>> THEN <<"https://app/cb">>
    ELSE <<"https://app/cb", "?">> \o JoinParams(ps)

\* parameter lists of at most MaxParams parameters with distinct names
MaxParams == 3

ParamLists ==
    UNION { { ps \in [1..n -> UNION { {Param(nm, v) : v \in ParamValues(nm)} : nm \in ParamNames }] :
                \A i, j \in 1..n : i # j => ps[i].name # ps[j].name } : n \in 0..MaxParams }

HasParam(ps, name) == \E i \in 1..Len(ps) : ps[i].name = name
ValueOf(ps, name) == ps[CHOOSE i \in 1..Len(ps) : ps[i].name = name].value

-----------------------------------------------------------------------------
(* set_auth_code_from_redirect *)

\* UpToAmp taking the last piece of the split instead of the first
UpToAmp_last(seg) ==
    IF Contains(seg, "&") THEN Split(seg, "&")[Len(Split(seg, "&"))] ELSE seg

\* UpToAmp that does not cut the segment at "&"
UpToAmp_whole(seg) == seg

\* `seg.split("&")[0] if "&" in seg else seg`
UpToAmp(seg) == IF Contains(seg, "&") THEN Split(seg, "&")[1] ELSE seg

\* set_auth_code_from_redirect that keeps a code it already has
set_auth_code_from_redirect_once(self, redirect_url) ==
    IF ~Contains(redirect_url, "code=")
    THEN [self |-> self, ret |-> Bool(FALSE)]
    ELSE LET code_segment == Split(redirect_url, "code=")[2]
             s1 == IF Truthy(self.auth_code) THEN self
                   ELSE [self EXCEPT !.auth_code = Str(UpToAmp(code_segment))]
             s2 == IF Contains(redirect_url, "realmId=")
                   THEN LET realm_id_segment == Split(redirect_url, "realmId=")[2]
                        IN [s1 EXCEPT !.realm_id = Str(UpToAmp(realm_id_segment))]
                   ELSE s1
         IN [self |-> s2, ret |-> Bool(TRUE)]

\* set_auth_code_from_redirect that drops the tokens of the flow before
set_auth_code_from_redirect_reset(self, redirect_url) ==
    IF ~Contains(redirect_url, "code=")
    THEN [self |-> self, ret |-> Bool(FALSE)]
    ELSE LET code_segment == Split(redirect_url, "code=")[2]
             s1 == [self EXCEPT !.auth_code = Str(UpToAmp(code_segment)),
                                !.access_token = None, !.refresh_token = None,
                                !.token_expiry = None]
             s2 == IF Contains(redirect_url, "realmId=")
                   THEN LET realm_id_segment == Split(redirect_url, "realmId=")[2]
                        IN [s1 EXCEPT !.realm_id = Str(UpToAmp(realm_id_segment))]
                   ELSE s1
         IN [self |-> s2, ret |-> Bool(TRUE)]

set_auth_code_from_redirect(self, redirect_url) ==
    IF ~Contains(redirect_url, "code=")
    THEN [self |-> self, ret |-> Bool(FALSE)]
    ELSE LET code_segment == Split(redirect_url, "code=")[2]
             s1 == [self EXCEPT !.auth_code = Str(UpToAmp(code_segment))]
             s2 == IF Contains(redirect_url, "realmId=")
                   THEN LET realm_id_segment == Split(redirect_url, "realmId=")[2]
                        IN [s1 EXCEPT !.realm_id = Str(UpToAmp(realm_id_segment))]
                   ELSE s1
         IN [self |-> s2, ret |-> Bool(TRUE)]

SetAuthCodeFromRedirect(ps) ==
    LET r == set_auth_code_from_redirect(Self, UrlOf(ps))
    IN /\ Store(r.self)
       /\ last' = [Done("set_auth_code_from_redirect", r.ret, <<>>, <<>>) EXCEPT !.url = ps]
       /\ UNCHANGED <<now, threads, wire>>

-----------------------------------------------------------------------------
(* exchange_code_for_tokens; t is int(time.time()) when the answer is handled *)

\* the form of lines 110-114
exchange_payload(self) ==
    [grant_type |-> "authorization_code", code |-> self.auth_code,
     redirect_uri |-> self.redirect_uri]

\* exchange_code_for_tokens that forgets the code once it has been exchanged
exchange_code_for_tokens_clear(self, response, t) ==
    IF ~Truthy(self.auth_code)
    THEN [self |-> self, ret |-> Bool(FALSE), net |-> <<>>]
    ELSE LET net == <<"POST authorization_code">> IN
         IF response.kind = "error"
         THEN [self |-> self, ret |-> Bool(FALSE), net |-> net]
         ELSE IF response.status = 200
         THEN IF response.body.t # "dict"
              THEN [self |-> self, ret |-> Bool(FALSE), net |-> net]
              ELSE LET token_data == response.body
                       s1 == [self EXCEPT !.access_token = DictGet(token_data, "access_token", None)]
                       s2 == [s1 EXCEPT !.refresh_token = DictGet(token_data, "refresh_token", None)]
                       expires_in == DictGet(token_data, "expires_in", Num(3600))
                   IN IF expires_in.t = "int"
                      THEN [self |-> [s2 EXCEPT !.token_expiry = Num(t + expires_in.n),
                                                !.auth_code = None],
                            ret |-> Bool(TRUE), net |-> net]
                      ELSE [self |-> s2, ret |-> Bool(FALSE), net |-> net]
         ELSE [self |-> self, ret |-> Bool(FALSE), net |-> net]

\* exchange_code_for_tokens storing the body's fields before it tests the status
exchange_code_for_tokens_unchecked(self, response, t) ==
    IF ~Truthy(self.auth_code)
    THEN [self |-> self, ret |-> Bool(FALSE), net |-> <<>>]
    ELSE LET net == <<"POST authorization_code">> IN
         IF response.kind = "error" \/ response.body.t # "dict"
         THEN [self |-> self, ret |-> Bool(FALSE), net |-> net]
         ELSE LET token_data == response.body
                  s1 == [self EXCEPT !.access_token = DictGet(token_data, "access_token", None)]
                  s2 == [s1 EXCEPT !.refresh_token = DictGet(token_data, "refresh_token", None)]
                  expires_in == DictGet(token_data, "expires_in", Num(3600))
              IN IF expires_in.t = "int" /\ response.status = 200
                 THEN [self |-> [s2 EXCEPT !.token_expiry = Num(t + expires_in.n)],
                       ret |-> Bool(TRUE), net |-> net]
                 ELSE [self |-> s2, ret |-> Bool(FALSE), net |-> net]

\* exchange_code_for_tokens without the test of auth_code
exchange_code_for_tokens_noguard(self, response, t) ==
    LET net == <<"POST authorization_code">> IN
    IF response.kind = "error"
    THEN [self |-> self, ret |-> Bool(FALSE), net |-> net]
    ELSE IF response.status = 200
    THEN IF response.body.t # "dict"
         THEN [self |-> self, ret |-> Bool(FALSE), net |-> net]
         ELSE LET token_data == response.body
                  s1 == [self EXCEPT !.access_token = DictGet(token_data, "access_token", None)]
                  s2 == [s1 EXCEPT !.refresh_token = DictGet(token_data, "refresh_token", None)]
                  expires_in == DictGet(token_data, "expires_in", Num(3600))
              IN IF expires_in.t = "int"
                 THEN [self |-> [s2 EXCEPT !.token_expiry = Num(t + expires_in.n)],
                       ret |-> Bool(TRUE), net |-> net]
                 ELSE [self |-> s2, ret |-> Bool(FALSE), net |-> net]
    ELSE [self |-> self, ret |-> Bool(FALSE), net |-> net]

exchange_code_for_tokens(self, response, t) ==
    IF ~Truthy(self.auth_code)
    THEN [self |-> self, ret |-> Bool(FALSE), net |-> <<>>]
    ELSE LET net == <<"POST authorization_code">> IN
         IF response.kind = "error"
         THEN [self |-> self, ret |-> Bool(FALSE), net |-> net]
         ELSE IF response.status = 200
         THEN IF response.body.t # "dict"
              THEN [self |-> self, ret |-> Bool(FALSE), net |-> net]
              ELSE LET token_data == response.body
                       s1 == [self EXCEPT !.access_token = DictGet(token_data, "access_token", None)]
                       s2 == [s1 EXCEPT !.refresh_token = DictGet(token_data, "refresh_token", None)]
                       expires_in == DictGet(token_data, "expires_in", Num(3600))
                   IN IF expires_in.t = "int"
                      THEN [self |-> [s2 EXCEPT !.token_expiry = Num(t + expires_in.n)],
                            ret |-> Bool(TRUE), net |-> net]
                      ELSE [self |-> s2, ret |-> Bool(FALSE), net |-> net]
         ELSE [self |-> self, ret |-> Bool(FALSE), net |-> net]

\* the provider answers only a request that is sent
ExchangeCodeForTokens ==
    \E response \in IF exchange_code_for_tokens(Self, NoResp, now).net # <<>>
                     THEN TokenResponses ELSE {NoResp} :
        LET r == exchange_code_for_tokens(Self, response, now)
        IN /\ Store(r.self)
           /\ last' = [Done("exchange_code_for_tokens", r.ret, r.net, <<>>)
                         EXCEPT !.resp = response,
                                !.payload = IF r.net # <<>> THEN exchange_payload(Self)
                                            ELSE NoPayload]
           /\ UNCHANGED <<now, threads, wire>>

-----------------------------------------------------------------------------
(* refresh_access_token *)

\* the form of lines 158-161
refresh_payload(self) == [grant_type |-> "refresh_token", refresh_token |-> self.refresh_token]

refresh_access_token(self, response, t) ==
    IF ~Truthy(self.refresh_token)
    THEN [self |-> self, ret |-> Bool(FALSE), net |-> <<>>]
    ELSE LET net == <<"POST refresh_token">> IN
         IF response.kind = "error"
         THEN [self |-> self, ret |-> Bool(FALSE), net |-> net]
         ELSE IF response.status = 200
         THEN IF response.body.t # "dict"
              THEN [self |-> self, ret |-> Bool(FALSE), net |-> net]
              ELSE LET token_data == response.body
                       s1 == [self EXCEPT !.access_token = DictGet(token_data, "access_token", None)]
                       s2 == [s1 EXCEPT !.refresh_token = DictGet(token_data, "refresh_token", None)]
                       expires_in == DictGet(token_data, "expires_in", Num(3600))
                   IN IF expires_in.t = "int"
                      THEN [self |-> [s2 EXCEPT !.token_expiry = Num(t + expires_in.n)],
                            ret |-> Bool(TRUE), net |-> net]
                      ELSE [self |-> s2, ret |-> Bool(FALSE), net |-> net]
         ELSE [self |-> self, ret |-> Bool(FALSE), net |-> net]

RefreshAccessToken ==
    \E response \in IF refresh_access_token(Self, NoResp, now).net # <<>>
                     THEN TokenResponses ELSE {NoResp} :
        LET r == refresh_access_token(Self, response, now)
        IN /\ Store(r.self)
           /\ last' = [Done("refresh_access_token", r.ret, r.net, <<>>)
                         EXCEPT !.resp = response,
                                !.payload = IF r.net # <<>> THEN refresh_payload(Self)
                                            ELSE NoPayload]
           /\ UNCHANGED <<now, threads, wire>>

-----------------------------------------------------------------------------
(* make_api_call; t is int(time.time()) *)

\* IsExpired with > for >=
IsExpired_gt(expiry, t) == Truthy(expiry) /\ t > expiry.n

\* `self.token_expiry and int(time.time()) >= self.token_expiry`
IsExpired(expiry, t) == Truthy(expiry) /\ t >= expiry.n

\* make_api_call with `and` for `or` in its first test
make_api_call_and(self, t, refresh_response, api_response) ==
    IF ~Truthy(self.access_token) /\ ~Truthy(self.realm_id)
    THEN [self |-> self, ret |-> None, net |-> <<>>, calls |-> <<>>]
    ELSE LET expired == IsExpired(self.token_expiry, t)
             r == IF expired THEN refresh_access_token(self, refresh_response, t)
                  ELSE [self |-> self, ret |-> Bool(TRUE), net |-> <<>>]
             calls == IF expired THEN <<Call("refresh_access_token", r.ret)>> ELSE <<>>
         IN IF expired /\ ~Truthy(r.ret)
            THEN [self |-> r.self, ret |-> None, net |-> r.net, calls |-> calls]
            ELSE [self |-> r.self,
                  ret |-> IF api_response.kind = "http" /\ api_response.status = 200
                          THEN Json ELSE None,
                  net |-> r.net \o <<"GET">>, calls |-> calls]

\* make_api_call trying the refresh a second time when the first attempt fails
make_api_call_retry(self, t, refresh_response, api_response) ==
    IF ~Truthy(self.access_token) \/ ~Truthy(self.realm_id)
    THEN [self |-> self, ret |-> None, net |-> <<>>, calls |-> <<>>]
    ELSE LET expired == IsExpired(self.token_expiry, t)
             r1 == IF expired THEN refresh_access_token(self, refresh_response, t)
                   ELSE [self |-> self, ret |-> Bool(TRUE), net |-> <<>>]
             r2 == IF expired /\ ~Truthy(r1.ret)
                   THEN refresh_access_token(r1.self, refresh_response, t)
                   ELSE [self |-> r1.self, ret |-> r1.ret, net |-> <<>>]
             net == r1.net \o r2.net
             calls == IF expired THEN <<Call("refresh_access_token", r2.ret)>> ELSE <<>>
         IN IF expired /\ ~Truthy(r2.ret)
            THEN [self |-> r2.self, ret |-> None, net |-> net, calls |-> calls]
            ELSE [self |-> r2.self,
                  ret |-> IF api_response.kind = "http" /\ api_response.status = 200
                          THEN Json ELSE None,
                  net |-> net \o <<"GET">>, calls |-> calls]

make_api_call(self, t, refresh_response, api_response) ==
    IF ~Truthy(self.access_token) \/ ~Truthy(self.realm_id)
    THEN [self |-> self, ret |-> None, net |-> <<>>, calls |-> <<>>]
    ELSE LET expired == IsExpired(self.token_expiry, t)
             r == IF expired THEN refresh_access_token(self, refresh_response, t)
                  ELSE [self |-> self, ret |-> Bool(TRUE), net |-> <<>>]
             calls == IF expired THEN <<Call("refresh_access_token", r.ret)>> ELSE <<>>
         IN IF expired /\ ~Truthy(r.ret)
            THEN [self |-> r.self, ret |-> None, net |-> r.net, calls |-> calls]
            ELSE [self |-> r.self,
                  ret |-> IF api_response.kind = "http" /\ api_response.status = 200
                          THEN Json ELSE None,
                  net |-> r.net \o <<"GET">>, calls |-> calls]

Sent(net, request) == \E i \in 1..Len(net) : net[i] = request
Count(net, request) == Cardinality({i \in 1..Len(net) : net[i] = request})

MakeApiCall ==
    \E refresh_response \in
           IF Sent(make_api_call(Self, now, NoResp, NoResp).net, "POST refresh_token")
           THEN TokenResponses ELSE {NoResp} :
        \E api_response \in
               IF Sent(make_api_call(Self, now, refresh_response, NoResp).net, "GET")
               THEN ApiResponses ELSE {NoResp} :
            LET r == make_api_call(Self, now, refresh_response, api_response)
            IN /\ Store(r.self)
               /\ last' = [Done("make_api_call", r.ret, r.net, r.calls)
                             EXCEPT !.resp = refresh_response]
               /\ UNCHANGED <<now, threads, wire>>

-----------------------------------------------------------------------------
(* time.time() moves on between operations *)

Tick ==
    /\ \E t \in Instants : t > now /\ now' = t
    /\ last' = Done("tick", None, <<>>, <<>>)
    /\ UNCHANGED <<fields, threads, wire>>

-----------------------------------------------------------------------------
(* Specifications *)

\* redirects of the whole flow: the sample redirect of demonstrate_oauth_flow,
\* one with a code alone and one without a code
FlowParamLists ==
    { <<Param("code", <<"AB123">>), Param("realmId", <<"999">>), Param("state", <<"s">>)>>,
      <<Param("code", <<"CD456">>)>>,
      <<Param("state", <<"s">>)>> }

Next ==
    \/ GetAuthorizationUrl
    \/ \E ps \in FlowParamLists : SetAuthCodeFromRedirect(ps)
    \/ ExchangeCodeForTokens
    \/ RefreshAccessToken
    \/ MakeApiCall
    \/ Tick

Spec == Init /\ [][Next]_vars

\* redirect handling alone, over every redirect
NextRedirect == \E ps \in ParamLists : SetAuthCodeFromRedirect(ps)

SpecRedirect == Init /\ [][NextRedirect]_vars

-----------------------------------------------------------------------------
(* two threads in make_api_call on one instance *)

\* the answers of the token endpoint to the refreshes of the two threads: a
\* refusal, and one new pair of tokens per refresh
RefreshAnswers ==
    {Http(401, ErrorJson),
     Http(200, TokenBody(Str(<<"a1">>), Str(<<"r1">>), Absent)),
     Http(200, TokenBody(Str(<<"a2">>), Str(<<"r2">>), Absent))}

AllIdle == \A c \in Callers : threads[c].pc = "idle"

\* thread c moves to pc, its other locals as they were
Goto(c, pc) == threads' = [threads EXCEPT ![c].pc = pc]

\* the history record is kept for the one-thread steps only
Interleaved == Done("threads", None, <<>>, <<>>)

\* lines 203-205: the test of access_token and realm_id
CallStart(c) ==
    /\ threads[c].pc = "idle"
    /\ IF ~Truthy(access_token) \/ ~Truthy(realm_id)
       THEN Goto(c, "done")
       ELSE Goto(c, "expiry")
    /\ last' = Interleaved
    /\ UNCHANGED <<fields, now, wire>>

\* line 208: the test of token_expiry against the clock
CallExpiry(c) ==
    /\ threads[c].pc = "expiry"
    /\ IF IsExpired(token_expiry, now)
       THEN threads' = [threads EXCEPT ![c].pc = "refresh", ![c].seen = token_expiry]
       ELSE Goto(c, "headers")
    /\ UNCHANGED <<fields, now, last, wire>>

\* lines 152-175: the test of refresh_token, then the POST of the form
RefreshSend(c) ==
    /\ threads[c].pc = "refresh"
    /\ IF ~Truthy(refresh_token)
       THEN Goto(c, "done") /\ UNCHANGED wire
       ELSE /\ Goto(c, "await")
            /\ wire' = wire \cup {[kind |-> "POST refresh_token", by |-> c,
                                   payload |-> refresh_payload(Self),
                                   expiry |-> threads[c].seen]}
    /\ UNCHANGED <<fields, now, last>>

\* lines 177-178 and 185-191: the answer arrives; 200 is parsed, anything
\* else makes refresh_access_token return False and make_api_call None
RefreshAnswer(c, response) ==
    /\ threads[c].pc = "await"
    /\ IF response.kind = "http" /\ response.status = 200 /\ response.body.t = "dict"
       THEN threads' = [threads EXCEPT ![c].pc = "set_access", ![c].token_data = response.body]
       ELSE Goto(c, "done")
    /\ UNCHANGED <<fields, now, last, wire>>

\* line 179
SetAccess(c) ==
    /\ threads[c].pc = "set_access"
    /\ access_token' = DictGet(threads[c].token_data, "access_token", None)
    /\ Goto(c, "set_refresh")
    /\ UNCHANGED <<client_id, client_secret, redirect_uri, auth_code, refresh_token,
                   token_expiry, realm_id, now, last, wire>>

\* line 180
SetRefresh(c) ==
    /\ threads[c].pc = "set_refresh"
    /\ refresh_token' = DictGet(threads[c].token_data, "refresh_token", None)
    /\ Goto(c, "set_expiry")
    /\ UNCHANGED <<client_id, client_secret, redirect_uri, auth_code, access_token,
                   token_expiry, realm_id, now, last, wire>>

\* line 181, and the return to make_api_call: int + None raises, and the
\* except clause returns False
SetExpiry(c) ==
    /\ threads[c].pc = "set_expiry"
    /\ LET expires_in == DictGet(threads[c].token_data, "expires_in", Num(3600))
       IN IF expires_in.t = "int"
          THEN token_expiry' = Num(now + expires_in.n) /\ Goto(c, "headers")
          ELSE UNCHANGED token_expiry /\ Goto(c, "done")
    /\ UNCHANGED <<client_id, client_secret, redirect_uri, auth_code, access_token,
                   refresh_token, realm_id, now, last, wire>>

\* does another thread stand between the three assignments of lines 179-181
MidUpdate(c) == \E d \in Callers \ {c} : threads[d].pc \in {"set_refresh", "set_expiry"}

\* lines 216-222: the Authorization header is built from access_token
Headers(c) ==
    /\ threads[c].pc = "headers"
    /\ threads' = [threads EXCEPT ![c].pc = "get", ![c].bearer = access_token,
                                  ![c].partial = MidUpdate(c)]
    /\ UNCHANGED <<fields, now, last, wire>>

\* line 225: the GET goes out with the header built before; partial tells
\* that the token fields were between two assignments when the header was
\* built, superseded that access_token has changed since
Get(c) ==
    /\ threads[c].pc = "get"
    /\ wire' = wire \cup {[kind |-> "GET", by |-> c, bearer |-> threads[c].bearer,
                           partial |-> threads[c].partial,
                           superseded |-> threads[c].bearer # access_token]}
    /\ Goto(c, "done")
    /\ UNCHANGED <<fields, now, last>>

\* the instance is authorized from one thread, then the two threads call
NextConcurrent ==
    \/ AllIdle /\ \E ps \in FlowParamLists : SetAuthCodeFromRedirect(ps)
    \/ AllIdle /\ ExchangeCodeForTokens
    \/ \E c \in Callers : CallStart(c)
    \/ \E c \in Callers : CallExpiry(c)
    \/ \E c \in Callers : RefreshSend(c)
    \/ \E c \in Callers, response \in RefreshAnswers : RefreshAnswer(c, response)
    \/ \E c \in Callers : SetAccess(c)
    \/ \E c \in Callers : SetRefresh(c)
    \/ \E c \in Callers : SetExpiry(c)
    \/ \E c \in Callers : Headers(c)
    \/ \E c \in Callers : Get(c)

SpecConcurrent == Init /\ [][NextConcurrent]_vars

-----------------------------------------------------------------------------
(* Properties.  A step is the step of an operation when last' names it.    *)

TokenOps == {"exchange_code_for_tokens", "refresh_access_token"}

\* the provider refused the request or could not be reached
Rejected(resp) == resp.kind = "error" \/ (resp.kind = "http" /\ resp.status # 200)

\* the three token fields are what lines 131-133 / 179-181 derive from resp at time t
AllFromResponse(resp, t, a, r, e) ==
    /\ resp.kind = "http" /\ resp.status = 200 /\ resp.body.t = "dict"
    /\ resp.body.expires_in.t \in {"int", "absent"}
    /\ a = (IF resp.body.access_token = Absent THEN None ELSE resp.body.access_token)
    /\ r = (IF resp.body.refresh_token = Absent THEN None ELSE resp.body.refresh_token)
    /\ e = Num(t + (IF resp.body.expires_in.t = "int" THEN resp.body.expires_in.n ELSE 3600))

\* C1 (as claimed): make_api_call at a time >= token_expiry, with access_token
\* and realm_id present, sends exactly one refresh_token request, before the
\* GET; if the refresh returns failure, make_api_call returns failure and
\* sends no GET.
C1_OneRefreshRequest ==
    [][ ( /\ last'.op = "make_api_call"
          /\ Truthy(access_token) /\ Truthy(realm_id)
          /\ token_expiry.t = "int" /\ now >= token_expiry.n )
        => /\ Count(last'.net, "POST refresh_token") = 1
           /\ last'.net[1] = "POST refresh_token"
           /\ Len(last'.calls) = 1
           /\ (last'.calls[1].ret = Bool(FALSE)
                 => last'.ret = None /\ ~Sent(last'.net, "GET")) ]_vars

\* C2: when exchange_code_for_tokens or refresh_access_token (called directly
\* or by make_api_call) gets a non-200 status or a transport failure, it
\* returns failure and access_token, refresh_token and token_expiry keep their
\* values; a 401 to the first exchange leaves the tokens unset.
C2_RejectionKeepsTokens ==
    [][ ( /\ last'.op \in TokenOps \cup {"make_api_call"}
          /\ Rejected(last'.resp) )
        => /\ UNCHANGED tokens
           /\ IF last'.op = "make_api_call"
              THEN last'.calls = <<Call("refresh_access_token", Bool(FALSE))>>
              ELSE last'.ret = Bool(FALSE) ]_vars

C2_Witness ==
    /\ last.op = "exchange_code_for_tokens"
    /\ last.resp = Http(401, ErrorJson)
    /\ last.ret = Bool(FALSE)
    /\ access_token = None /\ refresh_token = None /\ token_expiry = None

\* C3 (as claimed): after exchange_code_for_tokens or refresh_access_token has
\* got any answer, either all three token fields have their values of before
\* the call or all three have the values derived from the answer.
C3_TokensChangeAsGroup ==
    [][ (last'.op \in TokenOps /\ last'.resp.kind # "none")
        => \/ UNCHANGED tokens
           \/ AllFromResponse(last'.resp, now', access_token', refresh_token', token_expiry') ]_vars

\* C4: make_api_call while access_token or realm_id is absent returns None,
\* sends no request and changes nothing, whatever token_expiry and
\* refresh_token are.
C4_NoCallWithoutTokenOrRealm ==
    [][ ( /\ last'.op = "make_api_call"
          /\ (~Truthy(access_token) \/ ~Truthy(realm_id)) )
        => /\ last'.ret = None
           /\ last'.net = <<>>
           /\ last'.calls = <<>>
           /\ UNCHANGED <<fields, now>> ]_vars

C4_Witness ==
    /\ last.op = "make_api_call"
    /\ last.ret = None /\ last.net = <<>>
    /\ Truthy(access_token) /\ ~Truthy(realm_id)
    /\ Truthy(refresh_token) /\ IsExpired(token_expiry, now)

\* C5: exchange_code_for_tokens without an auth_code returns False, sends no
\* request and changes no field; refresh_access_token without a refresh_token
\* returns False and sends no request.
C5_PreconditionFailures ==
    [][ /\ (last'.op = "exchange_code_for_tokens" /\ ~Truthy(auth_code))
             => (last'.ret = Bool(FALSE) /\ last'.net = <<>> /\ UNCHANGED <<fields, now>>)
        /\ (last'.op = "refresh_access_token" /\ ~Truthy(refresh_token))
             => (last'.ret = Bool(FALSE) /\ last'.net = <<>> /\ UNCHANGED <<fields, now>>) ]_vars

C5_Witness ==
    /\ last.op = "exchange_code_for_tokens"
    /\ auth_code = None
    /\ last.ret = Bool(FALSE) /\ last.net = <<>>

\* C6: a 200 answer {access_token: a, refresh_token: r, expires_in: n} to
\* exchange_code_for_tokens at time T sets access_token = a, refresh_token = r
\* and token_expiry = T + n (T + 3600 without expires_in); make_api_call at a
\* time before token_expiry calls no refresh and sends the GET alone, and at a
\* time at or after token_expiry calls refresh_access_token first.
C6_ExchangeSetsValidityWindow ==
    [][ /\ ( /\ last'.op = "exchange_code_for_tokens"
             /\ last'.resp.kind = "http" /\ last'.resp.status = 200
             /\ last'.resp.body.t = "dict"
             /\ last'.resp.body.access_token.t = "str"
             /\ last'.resp.body.refresh_token.t = "str"
             /\ last'.resp.body.expires_in.t \in {"int", "absent"} )
           => /\ last'.ret = Bool(TRUE)
              /\ access_token' = last'.resp.body.access_token
              /\ refresh_token' = last'.resp.body.refresh_token
              /\ token_expiry' = Num(now' + (IF last'.resp.body.expires_in.t = "int"
                                             THEN last'.resp.body.expires_in.n ELSE 3600))
        /\ ( /\ last'.op = "make_api_call"
             /\ Truthy(access_token) /\ Truthy(realm_id)
             /\ token_expiry.t = "int" )
           => IF now < token_expiry.n
              THEN last'.calls = <<>> /\ last'.net = <<"GET">>
              ELSE /\ Len(last'.calls) = 1
                   /\ last'.calls[1].fn = "refresh_access_token"
                   /\ (Truthy(refresh_token) => last'.net # <<>> /\ last'.net[1] = "POST refresh_token")
                   /\ (Sent(last'.net, "GET") => last'.net = <<"POST refresh_token", "GET">>) ]_vars

C6_Witness ==
    /\ last.op = "exchange_code_for_tokens"
    /\ last.ret = Bool(TRUE)
    /\ last.resp = Http(200, TokenBody(Str(<<"a1">>), Str(<<"r1">>), Absent))
    /\ access_token = Str(<<"a1">>) /\ refresh_token = Str(<<"r1">>)
    /\ token_expiry = Num(now + 3600)

-----------------------------------------------------------------------------
(* Properties of set_auth_code_from_redirect, under SpecRedirect *)

Names(ps) == {ps[i].name : i \in 1..Len(ps)}
CodeLast(ps) == ps # <<>> /\ ps[Len(ps)].name = "code"

\* C7 (as claimed): for a redirect with code=X and no "&" after the code
\* value, in any state, set_auth_code_from_redirect returns True with
\* auth_code = X and realm_id unset.
C7_CodeLastLeavesRealmUnset ==
    (last.op = "set_auth_code_from_redirect" /\ CodeLast(last.url))
      => /\ last.ret = Bool(TRUE)
         /\ auth_code = Str(ValueOf(last.url, "code"))
         /\ realm_id = None

\* C7 (amended): for a redirect whose parameters are named code, realmId or
\* state, with code=X last, set_auth_code_from_redirect returns True with
\* auth_code = X; realm_id is the realmId value of the redirect when it has
\* one and keeps its value otherwise.
C7_CodeLastKeepsOrSetsRealm ==
    [][ ( /\ last'.op = "set_auth_code_from_redirect"
          /\ CodeLast(last'.url)
          /\ Names(last'.url) \subseteq {"code", "realmId", "state"} )
        => /\ last'.ret = Bool(TRUE)
           /\ auth_code' = Str(ValueOf(last'.url, "code"))
           /\ realm_id' = IF HasParam(last'.url, "realmId")
                          THEN Str(ValueOf(last'.url, "realmId")) ELSE realm_id ]_vars

C7_Witness ==
    /\ last.op = "set_auth_code_from_redirect"
    /\ last.url = <<Param("code", <<"CD456">>)>>
    /\ auth_code = Str(<<"CD456">>)
    /\ realm_id = Str(<<"999">>)

\* C8 (as claimed): on a redirect with no parameter named code,
\* set_auth_code_from_redirect returns False and leaves auth_code and
\* realm_id as they were.
C8_NoCodeParameterFails ==
    [][ ( /\ last'.op = "set_auth_code_from_redirect"
          /\ ~HasParam(last'.url, "code") )
        => /\ last'.ret = Bool(FALSE)
           /\ UNCHANGED <<auth_code, realm_id>> ]_vars

\* C9: for a redirect that carries code=C and realmId=R, and state=S or not,
\* in any order, set_auth_code_from_redirect sets auth_code = C and
\* realm_id = R.
C9_AnyParameterOrder ==
    ( /\ last.op = "set_auth_code_from_redirect"
      /\ {"code", "realmId"} \subseteq Names(last.url)
      /\ Names(last.url) \subseteq {"code", "realmId", "state"} )
    => /\ last.ret = Bool(TRUE)
       /\ auth_code = Str(ValueOf(last.url, "code"))
       /\ realm_id = Str(ValueOf(last.url, "realmId"))

C9_Witness ==
    /\ last.op = "set_auth_code_from_redirect"
    /\ last.url = <<Param("realmId", <<"999">>), Param("code", <<"AB123">>), Param("state", <<"s">>)>>
    /\ auth_code = Str(<<"AB123">>)
    /\ realm_id = Str(<<"999">>)

-----------------------------------------------------------------------------

\* C10 (as claimed): whenever make_api_call sends the GET, access_token and
\* realm_id are present and token_expiry is unset or later than the clock,
\* also after a refresh, whatever 200 answer the refresh got.
C10_GetWithValidToken ==
    (last.op = "make_api_call" /\ Sent(last.net, "GET"))
      => /\ Truthy(access_token)
         /\ Truthy(realm_id)
         /\ (token_expiry = None \/ token_expiry.n > now)

-----------------------------------------------------------------------------

\* the refresh of the step, made directly or by make_api_call, returned True
RefreshSucceeded(l) ==
    \/ l.op = "refresh_access_token" /\ l.ret = Bool(TRUE)
    \/ l.op = "make_api_call" /\ l.calls = <<Call("refresh_access_token", Bool(TRUE))>>

\* C11 (as claimed): after every exchange_code_for_tokens or
\* refresh_access_token that returns True, whatever the 200 body,
\* access_token and refresh_token are both present.
C11_SuccessMeansAuthorized ==
    ((last.op = "exchange_code_for_tokens" /\ last.ret = Bool(TRUE)) \/ RefreshSucceeded(last))
      => Truthy(access_token) /\ Truthy(refresh_token)

\* C12: no request is sent twice: one exchange_code_for_tokens or
\* refresh_access_token sends at most one request to the token endpoint, one
\* make_api_call at most one refresh_token request followed by at most one
\* GET, whatever the answers; no other operation sends a request, so every
\* operation ends after at most two answers.
C12_NoRetry ==
    /\ Len(last.net) <= 2
    /\ Len(last.calls) <= 1
    /\ last.op = "exchange_code_for_tokens" => last.net \in {<<>>, <<"POST authorization_code">>}
    /\ last.op = "refresh_access_token" => last.net \in {<<>>, <<"POST refresh_token">>}
    /\ last.op = "make_api_call"
         => last.net \in {<<>>, <<"GET">>, <<"POST refresh_token">>, <<"POST refresh_token", "GET">>}
    /\ last.op \notin TokenOps \cup {"make_api_call"} => last.net = <<>>

C12_Witness ==
    /\ last.op = "make_api_call"
    /\ Rejected(last.resp)
    /\ last.net = <<"POST refresh_token">>
    /\ last.calls = <<Call("refresh_access_token", Bool(FALSE))>>
    /\ last.ret = None

AllUnset == access_token = None /\ refresh_token = None /\ token_expiry = None

\* C13 (as claimed): until the first exchange_code_for_tokens that returns
\* True, access_token, refresh_token and token_expiry are unset and no
\* refresh_token request and no GET is sent; the tokens are first set by such
\* an exchange and afterwards changed only by exchange or refresh.  (The
\* three fields are all unset only before the first success, which sets
\* token_expiry for good, so the claim is one about the steps that leave a
\* state where they are unset.)
C13_TokensFirstSetBySuccessfulExchange ==
    [][ /\ AllUnset
          => /\ ~Sent(last'.net, "POST refresh_token")
             /\ ~Sent(last'.net, "GET")
             /\ (tokens' # tokens
                   => last'.op = "exchange_code_for_tokens" /\ last'.ret = Bool(TRUE))
        /\ tokens' # tokens
          => \/ last'.op \in TokenOps
             \/ last'.op = "make_api_call" /\ Len(last'.calls) = 1 ]_vars

-----------------------------------------------------------------------------

\* the answer alone makes exchange_code_for_tokens return True
Accepted(resp) ==
    /\ resp.kind = "http" /\ resp.status = 200 /\ resp.body.t = "dict"
    /\ resp.body.expires_in.t \in {"int", "absent"}

\* C14: exchange_code_for_tokens never changes auth_code; an exchange that
\* follows a successful one is not refused locally: it posts a second
\* authorization_code form with the same code, and returns True exactly when
\* the provider's answer is an acceptable one.
C14_SecondExchangeReachesProvider ==
    [][ last'.op = "exchange_code_for_tokens"
        => /\ auth_code' = auth_code
           /\ (last.op = "exchange_code_for_tokens" /\ last.ret = Bool(TRUE))
                => /\ last'.net = <<"POST authorization_code">>
                   /\ last'.payload.grant_type = "authorization_code"
                   /\ last'.payload.code = last.payload.code
                   /\ last'.payload.code = auth_code
                   /\ (last'.ret = Bool(TRUE)) = Accepted(last'.resp) ]_vars

C14_Witness ==
    /\ last.op = "exchange_code_for_tokens"
    /\ last.resp = Http(401, ErrorJson)
    /\ last.ret = Bool(FALSE)
    /\ last.payload.grant_type = "authorization_code"
    /\ last.payload.code = auth_code
    /\ token_expiry.t = "int"
    /\ Truthy(access_token)

\* C15 (as claimed): once set_auth_code_from_redirect has set auth_code, no
\* later operation, a further set_auth_code_from_redirect included, changes it.
C15_CodeSetOnce ==
    [][ auth_code # None => auth_code' = auth_code ]_vars

\* C15 (amended): auth_code is changed by set_auth_code_from_redirect alone,
\* and only when it returns True; a further redirect that has a code parameter
\* (and no parameter whose name ends in "code" before it) replaces auth_code
\* by the code of that redirect, also after the tokens were obtained.
C15_CodeChangedByRedirectOnly ==
    [][ /\ auth_code' # auth_code
          => last'.op = "set_auth_code_from_redirect" /\ last'.ret = Bool(TRUE)
        /\ ( /\ last'.op = "set_auth_code_from_redirect"
             /\ HasParam(last'.url, "code")
             /\ ~HasParam(last'.url, "xcode") )
          => auth_code' = Str(ValueOf(last'.url, "code")) ]_vars

C15_Witness ==
    /\ last.op = "set_auth_code_from_redirect"
    /\ last.url = <<Param("code", <<"CD456">>)>>
    /\ auth_code = Str(<<"CD456">>)
    /\ realm_id = Str(<<"999">>)
    /\ token_expiry.t = "int"
    /\ Truthy(refresh_token)

\* C17: client_id, client_secret and redirect_uri never change;
\* get_authorization_url changes no field; exchange_code_for_tokens,
\* refresh_access_token and make_api_call leave auth_code and realm_id alone;
\* set_auth_code_from_redirect leaves the three token fields alone.
C17_Frame ==
    [][ /\ UNCHANGED <<client_id, client_secret, redirect_uri>>
        /\ last'.op = "get_authorization_url" => UNCHANGED fields
        /\ last'.op \in TokenOps \cup {"make_api_call"} => UNCHANGED <<auth_code, realm_id>>
        /\ last'.op = "set_auth_code_from_redirect" => UNCHANGED tokens ]_vars

C17_Witness ==
    /\ last.op = "set_auth_code_from_redirect"
    /\ last.ret = Bool(TRUE)
    /\ Len(last.url) = 3
    /\ Truthy(access_token)
    /\ Truthy(refresh_token)
    /\ token_expiry.t = "int"

\* C16: when two threads run make_api_call on an expired token, at most one
\* refresh_token request is sent for that expiry, and no thread sends its GET
\* with a token that is part of a half-made update or already replaced.
C16_RefreshThenCallAtomic ==
    /\ \A p, q \in wire :
         (p.kind = "POST refresh_token" /\ q.kind = "POST refresh_token" /\ p.expiry = q.expiry)
           => p.by = q.by
    /\ \A g \in wire : g.kind = "GET" => ~g.partial /\ ~g.superseded

====
